---- MODULE Spec2Model ----
(***************************************************************************)
(* A model of regview.c: the hive header check (validHeader), the scan for *)
(* the root key node (main) and the recursive printer of the key tree      *)
(* (printSubTree), over byte-level hive files.                             *)
(*                                                                         *)
(* A 32-bit object is represented by the value of its bit pattern read as  *)
(* int32_t (so 0xFFFFFFFF is -1), a 16-bit object by its unsigned value.   *)
(***************************************************************************)
EXTENDS Integers, Sequences, FiniteSets, TLC

VARIABLES
    hive,       \* the description of the input file (see FileOf)
    pc,         \* where main is: "start", "scan", "walk", "done", "exit",
                \* "overflow"
    pos,        \* the position of the stream regf
    eof,        \* the end-of-file indicator of the stream regf
    cell_size,  \* main's cell_size
    bh,         \* main's bh.signature, as a word
    buf,        \* main's buf: the cell read last (len 0 - 1: none yet)
    stack,      \* the active calls of printSubTree, the outermost first
    lh,         \* the subkey index header decoded last (lh or lh2)
    out,        \* what was printed: key names and warnings
    hdr,        \* main's hdr: its non-zero words
    hres,       \* the value validHeader returned (0 - 1: not called yet)
    flipped     \* the bit of hdr inverted since the header was built

vars == <<hive, pc, pos, eof, cell_size, bh, buf, stack, lh, out,
          hdr, hres, flipped>>

(***************************************************************************)
(* Machine arithmetic.                                                     *)
(***************************************************************************)
RECURSIVE Pow2(_)
Pow2(n) == IF n = 0 THEN 1 ELSE 2 * Pow2(n - 1)

W16 == 65536

MaxS32 == 2147483647

MinS32 == 0 - MaxS32 - 1

\* byte k of a 32-bit object
Byte(v, k) == (v \div Pow2(8 * k)) % 256

\* the 32-bit object with the bytes b0 (lowest) .. b3
Word(b0, b1, b2, b3) ==
    b0 + 256 * b1 + W16 * b2 + 16777216 * (IF b3 >= 128 THEN b3 - 256 ELSE b3)

\* the value of a 16-bit pattern read as short
S16(u) == IF u >= W16 \div 2 THEN u - W16 ELSE u

RECURSIVE XorBits(_, _)
XorBits(a, b) ==
    IF a = 0 THEN b
    ELSE IF b = 0 THEN a
    ELSE ((a + b) % 2) + 2 * XorBits(a \div 2, b \div 2)

\* a ^ b on uint32_t
Xor(a, b) ==
    IF a = 0 THEN b
    ELSE IF b = 0 THEN a
    ELSE Word(XorBits(Byte(a, 0), Byte(b, 0)), XorBits(Byte(a, 1), Byte(b, 1)),
              XorBits(Byte(a, 2), Byte(b, 2)), XorBits(Byte(a, 3), Byte(b, 3)))

\* bit b of a 32-bit object
Bit(w, b) == (Byte(w, b \div 8) \div Pow2(b % 8)) % 2

\* the 32-bit object with only bit b set
OneBit(b) ==
    Word(IF b \div 8 = 0 THEN Pow2(b % 8) ELSE 0,
         IF b \div 8 = 1 THEN Pow2(b % 8) ELSE 0,
         IF b \div 8 = 2 THEN Pow2(b % 8) ELSE 0,
         IF b \div 8 = 3 THEN Pow2(b % 8) ELSE 0)

\* a + c on uint32_t, for 0 <= c
AddU32(a, c) ==
    IF a >= 0 /\ a > MaxS32 - c THEN ((a - MaxS32) - 1) + c - MaxS32 - 1
    ELSE a + c

(***************************************************************************)
(* The hive header: sizeof(HiveHeader) bytes seen as 32-bit words.         *)
(***************************************************************************)
SizeofHiveHeader == 512

HdrWords == SizeofHiveHeader \div 4

\* "regf" as a little-endian word: 'r' 'e' 'g' 'f'
RegfWord == Word(114, 101, 103, 102)

\* word i of the header h, which is kept as its non-zero words
HW(h, i) == IF i \in DOMAIN h THEN h[i] ELSE 0

\* strncmp(hdr->signature, "regf", 4) == 0
SigIsRegf(h) == HW(h, 0) = RegfWord

CksumWords_short == (SizeofHiveHeader - 8) \div 4

\* the loop bound of validHeader: i < sizeof(HiveHeader)-4, i += 4
CksumWords == (SizeofHiveHeader - 4) \div 4

\* one turn of the loop of validHeader, if the loop has not ended:
\* cksum ^= *cur++
XorTurn(h, i, cksum) ==
    IF i < CksumWords THEN Xor(cksum, HW(h, i)) ELSE cksum

\* the turns i .. i+7 of the loop
XorTurns(h, i, cksum) ==
    XorTurn(h, i + 7, XorTurn(h, i + 6, XorTurn(h, i + 5, XorTurn(h, i + 4,
        XorTurn(h, i + 3, XorTurn(h, i + 2, XorTurn(h, i + 1,
            XorTurn(h, i, cksum))))))))

\* for (i = 0; i < sizeof(HiveHeader)-4; i += 4) cksum ^= *cur++, from
\* word i on, eight turns at a time (the set binds the value of cksum
\* before the next turns start)
RECURSIVE XorLoop(_, _, _)
XorLoop(h, i, cksum) ==
    IF i >= CksumWords THEN cksum
    ELSE CHOOSE r \in {XorLoop(h, i + 8, c) : c \in {XorTurns(h, i, cksum)}} : TRUE

\* int validHeader(HiveHeader *hdr)
validHeader(h) ==
    IF ~SigIsRegf(h) THEN 0
    ELSE IF XorLoop(h, 0, 0) # HW(h, HdrWords - 1) THEN 0
    ELSE 1

(***************************************************************************)
(* The input file and the C stream over it.  A file is a size and its      *)
(* non-zero bytes; every other byte below the size is zero.                *)
(***************************************************************************)
Min(a, b) == IF a < b THEN a ELSE b

Max(a, b) == IF a > b THEN a ELSE b

ByteAt(f, o) == IF o \in DOMAIN f.bytes THEN f.bytes[o] ELSE 0

\* the number of bytes fread can deliver at position p when n are asked for
Avail(f, p, n) == Max(0, Min(n, f.size - p))

\* A buffer filled by one fread at file position p: its first avail bytes
\* come from the file, the others keep what the memory held before (g).
BufByte(f, b, k) == IF k < b.avail THEN ByteAt(f, b.p + k) ELSE b.g

BufU16(f, b, k) == BufByte(f, b, k) + 256 * BufByte(f, b, k + 1)

BufU32(f, b, k) ==
    Word(BufByte(f, b, k), BufByte(f, b, k + 1),
         BufByte(f, b, k + 2), BufByte(f, b, k + 3))

\* fread into an object that holds old: the bytes read replace its first
\* bytes, the others stay
OverU32(f, p, avail, old) ==
    Word(IF 0 < avail THEN ByteAt(f, p) ELSE Byte(old, 0),
         IF 1 < avail THEN ByteAt(f, p + 1) ELSE Byte(old, 1),
         IF 2 < avail THEN ByteAt(f, p + 2) ELSE Byte(old, 2),
         IF 3 < avail THEN ByteAt(f, p + 3) ELSE Byte(old, 3))

\* Offsets in registry hives are relative to the first hbin block and point
\* to the cell size.
HbinBase == 4096

\* uint32_t convOff(unsigned int off)
convOff(off) == AddU32(off, HbinBase + 4)

\* A uint32_t as a stream position.  Every position from 2^31 on lies
\* beyond the end of every file read here and stands for MaxS32.
PosOf(u) == IF u >= 0 THEN u ELSE MaxS32

(***************************************************************************)
(* Structure layouts (offsetof / sizeof on the build's ABI).               *)
(***************************************************************************)
SizeofNK == 80

NKTypeOff == 2

NKNumSubkeysOff == 20

NKSubkeysOff == 28

NKNameLenOff == 72

NKNameOff == 76

SizeofLH == 4

SizeofHashRec == 8

SizeofU32 == 4

SizeofBlockHeader == 32

NK_ROOT == 44

PageSize == 4096

\* two-byte signatures as little-endian 16-bit values
SigNK == 110 + 256 * 107

SigLH == 108 + 256 * 104

SigLF == 108 + 256 * 102

SigRI == 114 + 256 * 105

SigLI == 108 + 256 * 105

\* "hbin"
HbinWord == Word(104, 98, 105, 110)

(***************************************************************************)
(* Synthetic hives.  A hive is described by the list of what follows the   *)
(* first block header: cells (key nodes, subkey indexes, raw cells with an *)
(* explicit stored length) and further block headers; FileOf lays the      *)
(* description out as the bytes of a file, by the structure definitions.   *)
(* A reference to the i-th item of the list is written Ref(i); any other   *)
(* offset is written as the number stored.  cut bytes are missing at the   *)
(* end of the file, and hx is XORed into the header's checksum field.      *)
(***************************************************************************)
Ref(i) == 0 - i - 1

NKCell(type, nsub, sub, name) ==
    [k |-> "nk", type |-> type, nsub |-> nsub, sub |-> sub, name |-> name]

\* sig: the signature; w: the size of an entry; n: the declared num_entries
IXCell(sig, w, n, ents) ==
    [k |-> "ix", sig |-> sig, w |-> w, n |-> n, ents |-> ents]

\* a cell whose stored length is L, followed by blen bytes starting with body
RawCell(L, blen, body) == [k |-> "raw", L |-> L, blen |-> blen, body |-> body]

HbinItem == [k |-> "hbin"]

LE16(v) == <<v % 256, (v \div 256) % 256>>

LE32(v) == <<Byte(v, 0), Byte(v, 1), Byte(v, 2), Byte(v, 3)>>

Put(o, s) == [x \in o..(o + Len(s) - 1) |-> s[x - o + 1]]

Pad8(n) == ((n + 7) \div 8) * 8

\* the bytes an item takes in the file, its length field included
Total(c) ==
    CASE c.k = "nk" -> Pad8(4 + NKNameOff + Len(c.name))
      [] c.k = "ix" -> Pad8(4 + SizeofLH + c.w * Len(c.ents))
      [] c.k = "raw" -> 4 + c.blen
      [] c.k = "hbin" -> SizeofBlockHeader

RECURSIVE ItemPos(_, _)
ItemPos(cells, i) ==
    IF i = 1 THEN HbinBase + SizeofBlockHeader
    ELSE ItemPos(cells, i - 1) + Total(cells[i - 1])

\* the offset stored for a reference: relative to the first hbin block.
\* The all-ones offset is written 0 - 1.
Resolve(cells, r) == IF r < 0 - 1 THEN ItemPos(cells, 0 - r - 1) - HbinBase ELSE r

RECURSIVE EntryBytes(_, _, _, _)
EntryBytes(cells, c, at, e) ==
    IF e > Len(c.ents) THEN <<>>
    ELSE Put(at + c.w * (e - 1),
             LE32(Resolve(cells, c.ents[e]))
             \o (IF c.w = SizeofHashRec THEN <<122 - e, 0, 0, 0>> ELSE <<>>))
         @@ EntryBytes(cells, c, at, e + 1)

ItemBytes(cells, i) ==
    LET c == cells[i]
        at == ItemPos(cells, i)
    IN CASE c.k = "nk" ->
              Put(at, LE32(0 - Total(c)))
              @@ Put(at + 4, LE16(SigNK) \o LE16(c.type))
              @@ Put(at + 4 + NKNumSubkeysOff, LE32(c.nsub))
              @@ Put(at + 4 + NKSubkeysOff, LE32(Resolve(cells, c.sub)))
              @@ Put(at + 4 + NKNameLenOff, LE16(Len(c.name)))
              @@ Put(at + 4 + NKNameOff, c.name)
         [] c.k = "ix" ->
              Put(at, LE32(0 - Total(c)))
              @@ Put(at + 4, LE16(c.sig) \o LE16(c.n % W16))
              @@ EntryBytes(cells, c, at + 4 + SizeofLH, 1)
         [] c.k = "raw" ->
              Put(at, LE32(c.L)) @@ Put(at + 4, c.body)
         [] c.k = "hbin" ->
              Put(at, LE32(HbinWord))

RECURSIVE ItemsBytes(_, _)
ItemsBytes(cells, i) ==
    IF i > Len(cells) THEN <<>>
    ELSE ItemBytes(cells, i) @@ ItemsBytes(cells, i + 1)

\* a header: "regf", one non-zero field, and their checksum XORed with hx
HeaderBytes(hx) ==
    Put(0, LE32(RegfWord)) @@ Put(36, LE32(32))
    @@ Put(SizeofHiveHeader - 4, LE32(Xor(Xor(RegfWord, 32), hx)))

FileOf(h) ==
    [size |-> ItemPos(h.cells, Len(h.cells) + 1) - h.cut,
     bytes |-> HeaderBytes(h.hx) @@ Put(HbinBase, LE32(HbinWord))
               @@ ItemsBytes(h.cells, 1)]

\* the header of a file as the words fread stores in hdr
HdrWordOfFile(f, i) ==
    BufU32(f, [p |-> 0, avail |-> Avail(f, 0, SizeofHiveHeader), g |-> 0], 4 * i)

HdrOfFile(f) ==
    [i \in {j \in 0..(HdrWords - 1) : HdrWordOfFile(f, j) # 0} |->
        HdrWordOfFile(f, i)]

(***************************************************************************)
(* Memory the program reads without having written it (a short fread, a    *)
(* fresh malloc or realloc, bytes past the end of a buffer) holds any      *)
(* value: every such buffer takes its unwritten bytes from GarbageBytes.   *)
(***************************************************************************)
GarbageBytes == {0, 1}

\* malloc(n * size) as the code asks for it: the short n is converted to
\* size_t, so a negative n asks for more than 2^64 - 2^15 * size bytes,
\* which no allocator returns; every other request is served.
MallocFails_never(n, size) == FALSE

MallocFails(n, size) == n < 0

\* int nread = fread(ptr, size, n, regf): the number of whole elements read
\* at position p.  A negative n, converted to size_t, asks for more elements
\* than any file holds.
FreadCount(f, p, size, n) ==
    IF n < 0 THEN Max(0, f.size - p) \div size
    ELSE Avail(f, p, size * n) \div size

\* int32_t cell_size_real = (-1*cell_size) - sizeof(int), on 32 bits
CellSizeReal(cs) ==
    IF cs = MinS32 THEN MaxS32 - 3
    ELSE IF cs > MaxS32 - 3 THEN (MaxS32 - cs) + (MaxS32 - 2)
    ELSE (0 - cs) - 4

\* the cell size main accepts
BadCellSize(real) == real < 0 \/ real > PageSize

\* strncpy(nkName, nodeKey->name, nodeKey->name_len) then printf("%s"):
\* the name bytes up to the first NUL
PrintedLen(f, b, n) ==
    CHOOSE k \in 0..n :
        /\ k = n \/ BufByte(f, b, NKNameOff + k) = 0
        /\ \A j \in 0..(k - 1) : BufByte(f, b, NKNameOff + j) # 0

NameChars(f, b, n) ==
    [k \in 1..PrintedLen(f, b, n) |-> BufByte(f, b, NKNameOff + k - 1)]

\* the fields of an NK the program uses, read from the buffer b
DecodeNK(f, b) ==
    [type |-> S16(BufU16(f, b, NKTypeOff)),
     num_subkeys |-> BufU32(f, b, NKNumSubkeysOff),
     subkeys |-> BufU32(f, b, NKSubkeysOff),
     name_len |-> BufU16(f, b, NKNameLenOff),
     name |-> NameChars(f, b, BufU16(f, b, NKNameLenOff))]

\* One call of printSubTree.  ph is where the call is: "enter" (not yet
\* printed), "lh" (the loop over a hash list), "ri" (the loop over an ri
\* record), "rilh" / "rili" (the loop over a secondary list); at is the
\* position the NK was read from and whole whether every fread of it
\* delivered all bytes asked for.
Frame(nk, level, at, whole) ==
    [ph |-> "enter", level |-> level, nk |-> nk, at |-> at, whole |-> whole,
     n |-> 0, ents |-> <<>>, i |-> 0, n2 |-> 0, ents2 |-> <<>>, j |-> 0]

\* an entry array read as n packed 4-byte offsets whatever the entry size
Entries_packed(f, p, size, n) ==
    [e \in 1..Max(0, n) |->
        BufU32(f, [p |-> p, avail |-> Avail(f, p, size * n), g |-> 0],
               SizeofU32 * (e - 1))]

\* the n offsets of an entry array read at p, each entry size bytes:
\* hashes[i].offset, li_offsets[i], nk_offsets[i]
Entries(f, p, size, n) ==
    [e \in 1..Max(0, n) |->
        BufU32(f, [p |-> p, avail |-> Avail(f, p, size * n), g |-> 0],
               size * (e - 1))]

\* The two reads of a child NK at offset off (lines 189-200): the fixed
\* part, then, with the name length known, the whole.
ChildRead(f, off, g) ==
    LET p == PosOf(convOff(off))
        a1 == Avail(f, p, SizeofNK)
        nl == BufU16(f, [p |-> p, avail |-> a1, g |-> g], NKNameLenOff)
        full_nk_size == SizeofNK + nl - 1
        a2 == Avail(f, p, full_nk_size)
    IN [nk |-> DecodeNK(f, [p |-> p, avail |-> a2, g |-> g]),
        at |-> p,
        whole |-> a1 = SizeofNK /\ a2 = full_nk_size,
        pos |-> p + a2,
        eof |-> a2 < full_nk_size]

NKEvent(fr) ==
    [t |-> "nk", level |-> fr.level, name |-> fr.nk.name, at |-> fr.at,
     whole |-> fr.whole]

WarnEvent(a, b) == [t |-> "warn", a |-> a, b |-> b]

Top == stack[Len(stack)]

Rest == SubSeq(stack, 1, Len(stack) - 1)

\* the bound on the depth of the recursion explored
MaxDepth == 4

NoIndex == [sig |-> 0, n |-> 0, at |-> 0, whole |-> TRUE, via |-> "none",
            alloc |-> FALSE, nread |-> 0]

NoBuf == [len |-> 0 - 1, avail |-> 0, at |-> 0]

\* LH lh; fseek(regf, convOff(off), SEEK_SET); fread(&lh, sizeof(LH), 1, regf)
IndexRead(f, off, g, via) ==
    LET p == PosOf(convOff(off))
        a == Avail(f, p, SizeofLH)
        b == [p |-> p, avail |-> a, g |-> g]
    IN [sig |-> BufU16(f, b, 0), n |-> S16(BufU16(f, b, 2)), at |-> p,
        whole |-> a = SizeofLH, via |-> via, alloc |-> FALSE, nread |-> 0]

\* malloc(n * size), fread(arr, size, n, regf) at position p, and the
\* test nread < n: an entry array of the index x
ArrayRead(f, x, size) ==
    LET p == x.at + Avail(f, x.at, SizeofLH)
        failed == MallocFails(x.n, size)
        nread == IF failed THEN 0 ELSE FreadCount(f, p, size, x.n)
        got == IF failed THEN 0
               ELSE IF x.n < 0 THEN Max(0, f.size - p)
               ELSE Avail(f, p, size * x.n)
    IN [fatal |-> failed \/ nread < x.n,
        x |-> [x EXCEPT !.alloc = ~failed, !.nread = nread],
        ents |-> Entries(f, p, size, x.n),
        pos |-> p + got,
        eof |-> ~failed /\ (x.n < 0 \/ got < size * x.n)]

IsHashList(sig) == sig = SigLH \/ sig = SigLF

\* the caller's loop goes on after the call: free(next), then i++
Resume(c) ==
    IF c.ph = "lh" THEN [c EXCEPT !.i = c.i + 1] ELSE [c EXCEPT !.j = c.j + 1]

\* printSubTree returns, to its caller or to main (lines 409-412)
Return ==
    /\ stack' = IF Len(stack) = 1 THEN <<>>
                ELSE [Rest EXCEPT ![Len(stack) - 1] = Resume(Rest[Len(stack) - 1])]
    /\ pc' = IF Len(stack) = 1 THEN "done" ELSE "walk"

\* printSubTree(next, regf, level+1) for the child read as c; a recursion
\* deeper than MaxDepth is not followed ("overflow")
Call(c) ==
    IF Len(stack) >= MaxDepth
    THEN /\ pc' = "overflow"
         /\ stack' = stack
    ELSE /\ pc' = "walk"
         /\ stack' = Append(stack, Frame(c.nk, Top.level + 1, c.at, c.whole))

SetTop(fr) == [stack EXCEPT ![Len(stack)] = fr]

\* a loop that stops at the smaller of the declared and the recorded count
LoopCount_declared(nk, x) == Min(nk.num_subkeys, x.n)

\* lines 187 and 222: the loops run to the record's own num_entries,
\* whatever the parent's num_subkeys is
LoopCount(nk, x) == x.n

(***************************************************************************)
(* main                                                                    *)
(***************************************************************************)
\* lines 359-368: read and check the header, read the first block header
ReadHeader ==
    /\ pc = "start"
    /\ \E g \in GarbageBytes, f \in {FileOf(hive)} :
        LET h == HdrOfFile(f)
            a == Avail(f, HbinBase, SizeofBlockHeader)
        IN /\ hdr' = h
           /\ hres' = validHeader(h)
           /\ IF validHeader(h) = 0
              THEN /\ pc' = "exit"
                   /\ pos' = Avail(f, 0, SizeofHiveHeader)
                   /\ eof' = FALSE
                   /\ bh' = bh
              ELSE /\ pc' = "scan"
                   /\ pos' = HbinBase + a
                   /\ eof' = (a < SizeofBlockHeader)
                   /\ bh' = BufU32(f, [p |-> HbinBase, avail |-> a, g |-> g], 0)
    /\ UNCHANGED <<hive, cell_size, buf, stack, lh, out, flipped>>

\* lines 375-407: one turn of the loop that looks for the root cell
ScanCell ==
    /\ pc = "scan"
    /\ \E g \in GarbageBytes, f \in {FileOf(hive)} :
        LET atPage == pos % PageSize = 0
            a1 == Avail(f, pos, SizeofBlockHeader)
            bh1 == IF atPage THEN OverU32(f, pos, a1, bh) ELSE bh
            back == atPage /\ bh1 # HbinWord
            pos1 == IF atPage /\ ~back THEN pos + a1 ELSE pos
            eof1 == IF atPage THEN ~back /\ (eof \/ a1 < SizeofBlockHeader)
                    ELSE eof
            a2 == Avail(f, pos1, 4)
            cs == OverU32(f, pos1, a2, cell_size)
            pos2 == pos1 + a2
            eof2 == eof1 \/ a2 < 4
            real == CellSizeReal(cs)
            a3 == Avail(f, pos2, real)
            b == [p |-> pos2, avail |-> a3, g |-> g]
            nk == DecodeNK(f, b)
        IN /\ bh' = bh1
           /\ cell_size' = cs
           /\ IF BadCellSize(real)
              THEN /\ pc' = "exit"
                   /\ pos' = pos2
                   /\ eof' = eof2
                   /\ UNCHANGED <<buf, stack>>
              ELSE /\ pos' = pos2 + a3
                   /\ eof' = (eof2 \/ a3 < real)
                   /\ buf' = [len |-> real, avail |-> a3, at |-> pos2]
                   /\ IF BufU16(f, b, 0) = SigNK /\ nk.type = NK_ROOT
                      THEN /\ pc' = "walk"
                           /\ stack' = <<Frame(nk, 0, pos2, a3 = real)>>
                      ELSE /\ pc' = "scan"
                           /\ stack' = stack
    /\ UNCHANGED <<hive, lh, out, hdr, hres, flipped>>

(***************************************************************************)
(* printSubTree                                                            *)
(***************************************************************************)
Exit ==
    /\ pc' = "exit"
    /\ stack' = stack

\* lines 144-178 and 207-221: print the name, return from a leaf, else
\* read the subkey index and its entry array
Enter ==
    /\ pc = "walk"
    /\ Top.ph = "enter"
    /\ \E g \in GarbageBytes, f \in {FileOf(hive)} :
        LET fr == Top
            nk == fr.nk
            out1 == Append(out, NKEvent(fr))
            x == IndexRead(f, nk.subkeys, g, "nk")
            w == IF x.sig = SigRI THEN SizeofU32 ELSE SizeofHashRec
            arr == ArrayRead(f, x, w)
        IN IF nk.num_subkeys = 0 \/ nk.subkeys = 0 \/ nk.subkeys = 0 - 1
           THEN /\ out' = out1
                /\ Return
                /\ UNCHANGED <<pos, eof, lh>>
           ELSE IF IsHashList(x.sig) /\ x.n < 0
           THEN /\ out' = out1
                /\ Exit
                /\ lh' = x
                /\ pos' = x.at + Avail(f, x.at, SizeofLH)
                /\ eof' = ~x.whole
           ELSE IF IsHashList(x.sig) \/ x.sig = SigRI
           THEN /\ out' = IF IsHashList(x.sig) /\ nk.num_subkeys # x.n
                          THEN Append(out1, WarnEvent(nk.num_subkeys, x.n))
                          ELSE out1
                /\ lh' = arr.x
                /\ pos' = arr.pos
                /\ eof' = (arr.eof \/ ~x.whole)
                /\ IF arr.fatal
                   THEN Exit
                   ELSE /\ pc' = "walk"
                        /\ stack' = SetTop([fr EXCEPT
                                        !.ph = IF x.sig = SigRI THEN "ri" ELSE "lh",
                                        !.n = LoopCount(nk, x),
                                        !.ents = arr.ents, !.i = 0])
           ELSE /\ out' = out1
                /\ Exit
                /\ lh' = x
                /\ pos' = x.at + Avail(f, x.at, SizeofLH)
                /\ eof' = ~x.whole
    /\ UNCHANGED <<hive, cell_size, bh, buf, hdr, hres, flipped>>

\* lines 187-205: the loop over the entries of a hash list
HashLoop ==
    /\ pc = "walk"
    /\ Top.ph = "lh"
    /\ \E g \in GarbageBytes, f \in {FileOf(hive)} :
        LET fr == Top
            c == ChildRead(f, fr.ents[fr.i + 1], g)
        IN IF fr.i < fr.n
           THEN /\ Call(c)
                /\ pos' = c.pos
                /\ eof' = c.eof
           ELSE /\ Return
                /\ UNCHANGED <<pos, eof>>
    /\ UNCHANGED <<hive, cell_size, bh, buf, lh, out, hdr, hres, flipped>>

\* lines 222-243, 268-280, 304-309: the loop over the entries of an ri
\* record: read the secondary record and its entry array
RiLoop ==
    /\ pc = "walk"
    /\ Top.ph = "ri"
    /\ \E g \in GarbageBytes, f \in {FileOf(hive)} :
        LET fr == Top
            x == IndexRead(f, fr.ents[fr.i + 1], g, "ri")
            w == IF x.sig = SigLI THEN SizeofU32 ELSE SizeofHashRec
            arr == ArrayRead(f, x, w)
        IN IF fr.i >= fr.n
           THEN /\ Return
                /\ UNCHANGED <<pos, eof, lh>>
           ELSE IF IsHashList(x.sig) \/ x.sig = SigLI
           THEN /\ lh' = arr.x
                /\ pos' = arr.pos
                /\ eof' = (arr.eof \/ ~x.whole)
                /\ IF arr.fatal
                   THEN Exit
                   ELSE /\ pc' = "walk"
                        /\ stack' = SetTop([fr EXCEPT
                                        !.ph = IF x.sig = SigLI THEN "rili" ELSE "rilh",
                                        !.n2 = x.n, !.ents2 = arr.ents, !.j = 0])
           ELSE /\ Exit
                /\ lh' = x
                /\ pos' = x.at + Avail(f, x.at, SizeofLH)
                /\ eof' = ~x.whole
    /\ UNCHANGED <<hive, cell_size, bh, buf, out, hdr, hres, flipped>>

\* lines 248-266 and 282-301: the loop over the entries of a secondary list
InnerLoop ==
    /\ pc = "walk"
    /\ Top.ph \in {"rilh", "rili"}
    /\ \E g \in GarbageBytes, f \in {FileOf(hive)} :
        LET fr == Top
            c == ChildRead(f, fr.ents2[fr.j + 1], g)
        IN IF fr.j < fr.n2
           THEN /\ Call(c)
                /\ pos' = c.pos
                /\ eof' = c.eof
           ELSE /\ pc' = "walk"
                /\ stack' = SetTop([fr EXCEPT !.ph = "ri", !.i = fr.i + 1])
                /\ UNCHANGED <<pos, eof>>
    /\ UNCHANGED <<hive, cell_size, bh, buf, lh, out, hdr, hres, flipped>>

(***************************************************************************)
(* The hives the program is run on.                                        *)
(***************************************************************************)
\* the largest number of children of a key node
MaxKids == 3

NK_NODE == 32

\* the all-ones offset
NoSub == 0 - 1

RootName == <<82>>

KidName(e) == <<96 + e>>

Leaf(e) == NKCell(NK_NODE, 0, NoSub, KidName(e))

WidthOf(sig) == IF IsHashList(sig) THEN SizeofHashRec ELSE SizeofU32

Hive(cells) == [cells |-> cells, cut |-> 0, hx |-> 0]

\* the references to the items first .. last
Refs(first, last) == [e \in 1..(last - first + 1) |-> Ref(first + e - 1)]

Leaves(first, last) == [e \in 1..(last - first + 1) |-> Leaf(first + e - 1)]

\* A root declaring nsub subkeys, its index with the signature sig, N
\* entries and the declared count n, and the N leaves the entries refer to.
DirectHive(sig, N, n, nsub) ==
    Hive(<<NKCell(NK_ROOT, nsub, Ref(2), RootName),
           IXCell(sig, WidthOf(sig), n, Refs(3, N + 2))>>
         \o Leaves(1, N))

\* A root with N children split after the first b between two secondary
\* lists with the signatures s1 and s2, referenced by an ri record; the
\* first list declares the count n1.
RiHive(s1, s2, N, b, n1) ==
    Hive(<<NKCell(NK_ROOT, N, Ref(2), RootName),
           IXCell(SigRI, SizeofU32, 2, <<Ref(3), Ref(4)>>),
           IXCell(s1, WidthOf(s1), n1, Refs(5, b + 4)),
           IXCell(s2, WidthOf(s2), N - b, Refs(b + 5, N + 4))>>
         \o Leaves(1, N))

\* A root with the children A and B; A has the children named by 1 and 2,
\* listed in an index with the signature sig and the declared count n while
\* A declares nsub subkeys.
NestedHive(sig, n, nsub) ==
    Hive(<<NKCell(NK_ROOT, 2, Ref(2), RootName),
           IXCell(SigLH, SizeofHashRec, 2, <<Ref(3), Ref(4)>>),
           NKCell(NK_NODE, nsub, Ref(5), <<65>>),
           NKCell(NK_NODE, 0, 0, <<66>>),
           IXCell(sig, WidthOf(sig), n, <<Ref(6), Ref(7)>>),
           Leaf(1), Leaf(2)>>)

\* a root whose only child is the root itself
SelfHive(sig) ==
    Hive(<<NKCell(NK_ROOT, 1, Ref(2), RootName),
           IXCell(sig, WidthOf(sig), 1, <<Ref(1)>>)>>)

\* a root with a child A whose only child, through an ri record and a
\* secondary list with the signature sig, is the root
AncestorHive(sig) ==
    Hive(<<NKCell(NK_ROOT, 1, Ref(2), RootName),
           IXCell(SigLH, SizeofHashRec, 1, <<Ref(3)>>),
           NKCell(NK_NODE, 1, Ref(4), <<65>>),
           IXCell(SigRI, SizeofU32, 1, <<Ref(5)>>),
           IXCell(sig, WidthOf(sig), 1, <<Ref(1)>>)>>)

\* the data after a cell whose stored length is L: cell_size_real bytes
\* when main accepts the length
RoomFor(L) ==
    IF BadCellSize(CellSizeReal(L)) THEN 8 ELSE CellSizeReal(L)

\* a cell with the stored length L, then a childless root
CellSizeHive(L) ==
    Hive(<<RawCell(L, RoomFor(L), <<>>),
           NKCell(NK_ROOT, 0, NoSub, RootName)>>)

\* cells up to the end of the first page, then (with hb) a block header,
\* then the root
PageHive(hb) ==
    Hive(<<RawCell(0 - (PageSize - SizeofBlockHeader),
                   PageSize - SizeofBlockHeader - 4, <<>>)>>
         \o (IF hb THEN <<HbinItem>> ELSE <<>>)
         \o <<NKCell(NK_ROOT, 0, NoSub, RootName)>>)

\* files that hold no root: each ends after the cells given
NoRootHives ==
    {Hive(<<>>),
     Hive(<<Leaf(1)>>),
     Hive(<<RawCell(0 - 12, 8, <<1, 2>>)>>),
     Hive(<<RawCell(0 - 4, 0, <<>>)>>),
     Hive(<<Leaf(1), RawCell(0 - 12, 8, <<110, 107, 32, 0>>)>>)}

\* the first bytes of an NK of type NK_ROOT whose name_len is nl
ShortNK(len, nl) ==
    [i \in 1..len |->
        CASE i = 1 -> 110
          [] i = 2 -> 107
          [] i = NKTypeOff + 1 -> NK_ROOT
          [] i = NKNameLenOff + 1 -> nl
          [] OTHER -> 0]

\* a first cell of len bytes that starts like a root NK
ShortRootHive(len, nl) == Hive(<<RawCell(0 - len - 4, len, ShortNK(len, nl))>>)

CellSizes ==
    {0 - 4, 0 - 5, 0 - 12, 0 - 4100, 0 - 4101, 0 - 3, 0 - 1, 0, 4, 16,
     MaxS32, MaxS32 - 3, MinS32, MinS32 + 1}

NegCounts == {0 - 1, 0 - 2, 0 - 32768}

HashSigs == {SigLH, SigLF}

ListSigs == {SigLH, SigLF, SigLI}

\* an index signature the program does not know
SigXX == 120 + 256 * 120

\* h with its last c bytes missing
CutOff(h, c) == [h EXCEPT !.cut = c]

DataLen(h) == ItemPos(h.cells, Len(h.cells) + 1) - (HbinBase + SizeofBlockHeader)

TruncatedOf(h) == {CutOff(h, c) : c \in {d \in 1..DataLen(h) : d % 9 = 1}}

FlatHives ==
    {DirectHive(s, N, N, N) : s \in HashSigs, N \in 0..MaxKids}

SplitHives ==
    UNION {{RiHive(s1, s2, N, b, b) : s1 \in ListSigs, s2 \in ListSigs, b \in 0..N}
           : N \in 0..MaxKids}

MismatchHives ==
    UNION {{DirectHive(s, N, N, nsub) : nsub \in {N + 1, N + 2, 0 - 1} \ {0}}
           : s \in HashSigs, N \in 0..MaxKids}
    \cup {NestedHive(s, 2, 3) : s \in HashSigs}
    \cup {DirectHive(s, 2, 1, 2) : s \in HashSigs}

LegacyHives ==
    {DirectHive(SigLI, N, N, N) : N \in 1..MaxKids}

NestedHives ==
    {NestedHive(s, 2, 2) : s \in ListSigs \cup {SigRI}}

CyclicHives ==
    {SelfHive(s) : s \in HashSigs} \cup {AncestorHive(s) : s \in ListSigs}

NegativeHives ==
    UNION {{DirectHive(s, N, n, 2) : s \in ListSigs \cup {SigRI, SigXX}, N \in {0, 2}}
           \cup {RiHive(s, SigLH, 2, 1, n) : s \in ListSigs \cup {SigXX}}
           : n \in NegCounts}

UnknownHives ==
    {DirectHive(SigXX, 1, 1, 1), RiHive(SigXX, SigLH, 2, 1, 1),
     RiHive(SigLH, SigRI, 2, 1, 1)}

ScanHives ==
    {CellSizeHive(L) : L \in CellSizes}
    \cup {PageHive(hb) : hb \in BOOLEAN}
    \cup NoRootHives
    \cup {ShortRootHive(4, 0), ShortRootHive(2, 0), ShortRootHive(80, 9),
          ShortRootHive(76, 0), ShortRootHive(1, 0)}

TruncatedHives ==
    TruncatedOf(DirectHive(SigLH, 2, 2, 2))
    \cup TruncatedOf(RiHive(SigLI, SigLH, 2, 1, 1))
    \cup TruncatedOf(NestedHive(SigLH, 2, 2))

BadHeaderHives ==
    {[DirectHive(SigLH, 1, 1, 1) EXCEPT !.hx = x] : x \in {1, MinS32}}

Hives ==
    FlatHives \cup SplitHives \cup MismatchHives \cup LegacyHives
    \cup NestedHives \cup CyclicHives \cup NegativeHives \cup UnknownHives
    \cup ScanHives \cup TruncatedHives \cup BadHeaderHives

(***************************************************************************)
(* The program: main on one of the hives.                                  *)
(***************************************************************************)
Init ==
    /\ hive \in Hives
    /\ pc = "start"
    /\ pos = 0
    /\ eof = FALSE
    /\ cell_size = 0 - 1
    /\ bh = 0
    /\ buf = NoBuf
    /\ stack = <<>>
    /\ lh = NoIndex
    /\ out = <<>>
    /\ hdr = <<>>
    /\ hres = 0 - 1
    /\ flipped = <<>>

Next ==
    \/ ReadHeader
    \/ ScanCell
    \/ Enter
    \/ HashLoop
    \/ RiLoop
    \/ InnerLoop

Spec == Init /\ [][Next]_vars

(***************************************************************************)
(* validHeader on its own: a header is validated; an accepted header has   *)
(* one bit of the bytes 0 .. 0x1FB flipped and is validated again.         *)
(***************************************************************************)
\* the header h without its zero words
Canon(h) == [i \in {j \in DOMAIN h : h[j] # 0} |-> h[i]]

\* a header with the first word sig, the words a and b at the indexes 1 and
\* 126, and the stored checksum off by d
HeaderWith(sig, a, b, d) ==
    Canon((0 :> sig) @@ (1 :> a) @@ ((HdrWords - 2) :> b)
          @@ ((HdrWords - 1) :> Xor(Xor(Xor(sig, a), b), d)))

Headers ==
    {HeaderWith(sig, a, b, d) :
        sig \in {RegfWord, Word(114, 101, 103, 0), Word(82, 101, 103, 102)},
        a \in {0, 32}, b \in {0, 5}, d \in {0, 1, MinS32}}

\* h with the bit b of the word w flipped
Flip(h, w, b) ==
    Canon([i \in DOMAIN h \cup {w} |->
              IF i = w THEN Xor(HW(h, i), OneBit(b)) ELSE HW(h, i)])

HeaderInit ==
    /\ hdr \in Headers
    /\ hres = 0 - 1
    /\ flipped = <<>>
    /\ hive = Hive(<<>>)
    /\ pc = "header"
    /\ pos = 0
    /\ eof = FALSE
    /\ cell_size = 0 - 1
    /\ bh = 0
    /\ buf = NoBuf
    /\ stack = <<>>
    /\ lh = NoIndex
    /\ out = <<>>

\* line 364: validHeader(&header)
CallValidHeader ==
    /\ pc = "header"
    /\ hres = 0 - 1
    /\ hres' = validHeader(hdr)
    /\ UNCHANGED <<hive, pc, pos, eof, cell_size, bh, buf, stack, lh, out,
                   hdr, flipped>>

\* one bit of the checksummed bytes of an accepted header changes
FlipBit ==
    /\ pc = "header"
    /\ hres = 1
    /\ flipped = <<>>
    /\ \E w \in 0..(HdrWords - 2), b \in 0..31 :
        /\ hdr' = Flip(hdr, w, b)
        /\ flipped' = <<w, b>>
    /\ hres' = 0 - 1
    /\ UNCHANGED <<hive, pc, pos, eof, cell_size, bh, buf, stack, lh, out>>

HeaderNext == CallValidHeader \/ FlipBit

HeaderSpec == HeaderInit /\ [][HeaderNext]_vars

(***************************************************************************)
(* The properties.                                                         *)
(***************************************************************************)
\* the first four bytes of the header h
FirstBytes(h) == [k \in 1..4 |-> Byte(HW(h, 0), k - 1)]

\* in every bit position, the words 0 .. 126 of h hold an odd number of
\* ones exactly when the word at 0x1FC has a one there
ParityMatches(h) ==
    \A b \in 0..31 :
        Cardinality({i \in DOMAIN h : i <= HdrWords - 2 /\ Bit(h[i], b) = 1}) % 2
            = Bit(HW(h, HdrWords - 1), b)

\* C1: a header is accepted exactly when its first four bytes are "regf"
\* and the exclusive-or of the 127 words at 0 .. 0x1FB equals the word at
\* 0x1FC; an accepted header with one bit of those bytes flipped is rejected.
C1_HeaderValidation ==
    hres # 0 - 1 =>
        /\ hres \in {0, 1}
        /\ hres = 1 <=> (FirstBytes(hdr) = <<114, 101, 103, 102>>
                         /\ ParityMatches(hdr))
        /\ flipped # <<>> => hres = 0

\* the top bit of the last checksummed word of an accepted header was
\* flipped and the header was rejected
C1_Witness ==
    /\ pc = "header"
    /\ flipped = <<HdrWords - 2, 31>>
    /\ hres = 0
    /\ FirstBytes(hdr) = <<114, 101, 103, 102>>

\* the key nodes of the output o, each as <<level, name>>, in order
Nodes(o) ==
    LET s == SelectSeq(o, LAMBDA e : e.t = "nk")
    IN [i \in 1..Len(s) |-> <<s[i].level, s[i].name>>]

Warns(o) == SelectSeq(o, LAMBDA e : e.t = "warn")

IsPrefix(s, t) ==
    /\ Len(s) <= Len(t)
    /\ \A i \in 1..Len(s) : s[i] = t[i]

\* the pre-order walk of a root with the N leaves 1 .. N
ExpectedFlat(N) ==
    <<<<0, RootName>>>> \o [e \in 1..N |-> <<1, KidName(e)>>]

\* the well-formed hives whose root has N children: listed in one lh/lf
\* record, or split after any b of them between two lh/lf records under ri
HashHives(N) ==
    {DirectHive(s, N, N, N) : s \in HashSigs}
    \cup {RiHive(s1, s2, N, b, b) : s1 \in HashSigs, s2 \in HashSigs, b \in 0..N}

\* C2: on a well-formed hive whose root has N children the walk visits
\* N + 1 nodes, the root first and then the children in the order of their
\* lists, and the sequence is the same however an ri record splits them.
C2_Traversal ==
    \A N \in 0..MaxKids :
        hive \in HashHives(N) =>
            /\ pc \notin {"exit", "overflow"}
            /\ IsPrefix(Nodes(out), ExpectedFlat(N))
            /\ pc = "done" => Nodes(out) = ExpectedFlat(N)

\* the walk of two children split one and one under ri has ended
C2_Witness ==
    /\ hive = RiHive(SigLH, SigLF, 2, 1, 1)
    /\ pc = "done"
    /\ Len(Nodes(out)) = 3

\* the NK stored at the position at of the file f
StoredNK(f, at) ==
    DecodeNK(f, [p |-> at, avail |-> Max(0, f.size - at), g |-> 0])

\* the 4 bytes of the index record of nk, when all of them are in f
StoredIndex(f, nk) == IndexRead(f, nk.subkeys, 0, "nk")

\* the event k of o is a key node whose lh/lf record holds a count that is
\* not negative and differs from the node's num_subkeys
Mismatched(f, o, k) ==
    /\ o[k].t = "nk"
    /\ o[k].whole
    /\ LET nk == StoredNK(f, o[k].at)
           x == StoredIndex(f, nk)
       IN /\ nk.num_subkeys # 0
          /\ nk.subkeys \notin {0, 0 - 1}
          /\ x.whole
          /\ IsHashList(x.sig)
          /\ x.n >= 0
          /\ x.n # nk.num_subkeys

\* the events after k that are children of the key node at k
ChildrenOf(o, k) ==
    {j \in (k + 1)..Len(o) :
        /\ o[j].t = "nk"
        /\ o[j].level = o[k].level + 1
        /\ \A m \in (k + 1)..j : o[m].t = "nk" => o[m].level > o[k].level}

\* C3: a key node whose num_subkeys differs from the count of its lh/lf
\* record gets exactly one warning naming both counts, its children are
\* walked by the record's count, and the run does not fail for it.
C3_MismatchedCount ==
    /\ hive \in MismatchHives => pc # "exit"
    /\ \A k \in 1..Len(out) :
        \E f \in {FileOf(hive)} :
            Mismatched(f, out, k) =>
                /\ Len(out) > k
                /\ out[k + 1] = WarnEvent(StoredNK(f, out[k].at).num_subkeys,
                                          StoredIndex(f, StoredNK(f, out[k].at)).n)
                /\ Len(out) > k + 1 => out[k + 2].t # "warn"
                /\ Cardinality(ChildrenOf(out, k))
                       <= StoredIndex(f, StoredNK(f, out[k].at)).n
                /\ pc = "done" =>
                    Cardinality(ChildrenOf(out, k))
                        = StoredIndex(f, StoredNK(f, out[k].at)).n

\* a root declaring 3 subkeys with an lh record of 2 entries was walked to
\* the end: one warning, the root and two children
C3_Witness ==
    /\ hive = DirectHive(SigLH, 2, 2, 3)
    /\ pc = "done"
    /\ Warns(out) = <<WarnEvent(3, 2)>>
    /\ Len(Nodes(out)) = 3

\* the well-formed hives whose root has N children listed in li records:
\* in one li record, or split after any b of them between two under ri
LegacyListHives(N) ==
    {DirectHive(SigLI, N, N, N)}
    \cup {RiHive(SigLI, SigLI, N, b, b) : b \in 0..N}

\* C4: the children listed in an li record are walked in the order of its
\* 4-byte entries, whether a key node refers to the record or an ri record
\* does.
C4_LegacyList ==
    \A N \in 1..MaxKids :
        hive \in LegacyListHives(N) =>
            /\ pc # "exit"
            /\ pc = "done" => Nodes(out) = ExpectedFlat(N)

\* C5: the walk is finite on every input: no key node is entered again
\* while it is being walked, so a record that refers to itself or to an
\* ancestor does not make the walk recurse without end.
C5_WalkFinite ==
    \A i \in 1..Len(stack) : \A j \in 1..Len(stack) :
        i < j => stack[i].at # stack[j].at

\* C6: the search for the root reads no further cell once the end of the
\* file has been met.
C6_ScanStopsAtEnd == ~(pc = "scan" /\ eof)

\* C7: every cell whose data the search reads has a computed size greater
\* than 0 and at most 4096.
C7_CellSizeBounds ==
    buf # NoBuf => 0 < buf.len /\ buf.len <= PageSize

\* C8: a read that returns fewer bytes than asked for ends the run: no key
\* node is walked or printed, and no index record used, after a short read
\* of it.
C8_TruncatedReadFatal ==
    /\ \A i \in 1..Len(stack) : stack[i].whole
    /\ \A k \in 1..Len(out) : out[k].t = "nk" => out[k].whole
    /\ ~lh.whole => pc = "exit"

\* C9: a negative entry count in an index record ends the run before its
\* entry array is allocated or read.
C9_NegativeCountFatal ==
    (lh.via # "none" /\ lh.n < 0) =>
        /\ pc = "exit"
        /\ ~lh.alloc
        /\ lh.nread = 0

\* an li record under ri with a negative count was read and the run ended
C9_Witness ==
    /\ lh.via = "ri"
    /\ lh.sig = SigLI
    /\ lh.whole
    /\ lh.n < 0
    /\ pc = "exit"

\* C10: a cell is taken as the root only when the bytes of the key node
\* that are examined and printed lie inside the cell.
C10_RootInsideCell ==
    (pc = "walk" /\ Len(stack) = 1 /\ stack[1].ph = "enter") =>
        buf.len >= NKNameOff + stack[1].nk.name_len

====
